---- MODULE Spec2Model ----
(***************************************************************************)
(* A model of scripts/create_repo.py: one run of main(), which resolves a  *)
(* GitHub token, issues one POST to /user/repos, and on success points the *)
(* local git remote "origin" at the new repository.                        *)
(*                                                                         *)
(* Python values are modelled as follows.                                  *)
(*   - an optional string (None or a str) is a record: None, or Str(s);    *)
(*   - bytes read from an HTTP body are a record [utf8, text]: either the  *)
(*     UTF-8 encoding of text, or bytes that are not valid UTF-8;          *)
(*   - a parsed JSON object is a record of its fields;                     *)
(*   - an f-string is the concatenation (\o) of its parts;                 *)
(*   - a call that may raise returns a record whose field "raised" names   *)
(*     the exception class, or is "" when the call returned normally.      *)
(***************************************************************************)
EXTENDS Integers, Sequences, FiniteSets, TLC

VARIABLES
    environ,     \* os.environ restricted to GITHUB_TOKEN: None or Str(value)
    argv,        \* sys.argv, a sequence of strings, argv[1] is the program
    gitEnv,      \* the local git installation / working directory
    origin,      \* URL of the git remote "origin": None or Str(url)
    origin0,     \* the value of origin when the run started
    pc,          \* position of the run inside main()
    token,       \* main's local variable token
    success,     \* main's local variable success
    result,      \* main's local variable result
    queryRc,     \* setup_git_remote's result.returncode
    output,      \* the lines printed to standard output so far
    requests,    \* the HTTP requests issued so far, in order
    response,    \* what came back for the request: NoResponse before it
    gitLog,      \* the git sub-commands started so far, in order
    exitStatus,  \* process exit status: -1 while the process is running
    fault        \* the exception that left main() uncaught, "" if none

vars == <<environ, argv, gitEnv, origin, origin0, pc, token, success, result,
          queryRc, output, requests, response, gitLog, exitStatus, fault>>

-----------------------------------------------------------------------------
(* Module constants, create_repo.py lines 13-15 *)

REPO_NAME == "Phoenix.Marie"

GITHUB_USER == "c04ch1337"

GITHUB_API == "https://api.github.com"

-----------------------------------------------------------------------------
(* Python values *)

None == [isNone |-> TRUE, v |-> ""]

Str(s) == [isNone |-> FALSE, v |-> s]

\* Python truthiness of an optional string: None and "" are falsy
Truthy(x) == ~x.isNone /\ x.v # ""

\* os.environ.get("GITHUB_TOKEN")
environ_get(env) == env

\* The values the run can start from
ProgName == "scripts/create_repo.py"

EnvToken == "ghp_from_environment"

ArgToken == "ghp_from_argument"

Environs == {None, Str(""), Str(EnvToken)}

Argvs == {<<ProgName>>, <<ProgName, "">>, <<ProgName, ArgToken>>,
          <<ProgName, ArgToken, "extra">>}

-----------------------------------------------------------------------------
(* get_token, lines 17-32 *)

UsageText(av) ==
    << "GitHub personal access token required.",
       "Get one at: https://github.com/settings/tokens",
       "Token needs 'repo' scope",
       "",
       "Usage:",
       "  " \o av[1] \o " <GITHUB_TOKEN>",
       "  or",
       "  GITHUB_TOKEN=<token> " \o av[1] >>

\* get_token with the fallback taken whenever an argument is present
get_token_ArgFirst(env, av) ==
    LET t1 == environ_get(env)
        t2 == IF Len(av) > 1 THEN Str(av[2]) ELSE t1
    IN  IF ~Truthy(t2)
        THEN [exited |-> TRUE,  status |-> 1, token |-> t2, printed |-> UsageText(av)]
        ELSE [exited |-> FALSE, status |-> 0, token |-> t2, printed |-> <<>>]

\* get_token without the final check of the token
get_token_NoCheck(env, av) ==
    LET t1 == environ_get(env)
        t2 == IF ~Truthy(t1) /\ Len(av) > 1 THEN Str(av[2]) ELSE t1
    IN  [exited |-> FALSE, status |-> 0, token |-> t2, printed |-> <<>>]

\* Returns the token, or reports that sys.exit(1) was called after the usage
\* text was printed.
get_token(env, av) ==
    LET t1 == environ_get(env)
        t2 == IF ~Truthy(t1) /\ Len(av) > 1 THEN Str(av[2]) ELSE t1
    IN  IF ~Truthy(t2)
        THEN [exited |-> TRUE,  status |-> 1, token |-> t2, printed |-> UsageText(av)]
        ELSE [exited |-> FALSE, status |-> 0, token |-> t2, printed |-> <<>>]

-----------------------------------------------------------------------------
(* The HTTP exchange and JSON, as create_repo uses them *)

\* bytes that are the UTF-8 encoding of the text t
Bytes(t) == [utf8 |-> TRUE, text |-> t]

\* bytes that are not valid UTF-8, for example b"\xff\xfe"
NotUtf8 == [utf8 |-> FALSE, text |-> ""]

CreatedJson == "{\"name\": \"Phoenix.Marie\", \"owner\": {\"login\": \"c04ch1337\"}}"

ExistsJson == "{\"message\": \"name already exists\"}"

BadCredsJson ==
    "{\"message\": \"Bad credentials\", \"documentation_url\": \"https://docs.github.com/rest\"}"

JsonTexts == {CreatedJson, ExistsJson, BadCredsJson}

PlainTexts == {"Internal Server Error", "<html>Bad Gateway</html>", ""}

Bodies == {Bytes(t) : t \in JsonTexts \cup PlainTexts} \cup {NotUtf8}

\* No value: what a local variable holds before it is assigned
Unset == [unset |-> TRUE]

\* bytes.decode(): UTF-8, strict
decode(b) ==
    IF b.utf8 THEN [raised |-> "", text |-> b.text]
              ELSE [raised |-> "UnicodeDecodeError", text |-> ""]

\* json.loads on a str: the texts of JsonTexts parse to the objects they
\* denote, every other text of the model is not JSON.
json_loads(t) ==
    CASE t = CreatedJson ->
            [raised |-> "", value |-> [name |-> "Phoenix.Marie", owner |-> [login |-> "c04ch1337"]]]
      [] t = ExistsJson ->
            [raised |-> "", value |-> [message |-> "name already exists"]]
      [] t = BadCredsJson ->
            [raised |-> "", value |-> [message |-> "Bad credentials",
                                       documentation_url |-> "https://docs.github.com/rest"]]
      [] OTHER ->
            [raised |-> "JSONDecodeError", value |-> Unset]

\* json.loads on bytes: decodes, then parses
json_loads_bytes(b) ==
    LET d == decode(b)
    IN  IF d.raised # "" THEN [raised |-> d.raised, value |-> Unset]
                         ELSE json_loads(d.text)

\* json.dumps(obj, indent=2), as the lines it prints; keys in insertion order
json_dumps(obj) ==
    CASE DOMAIN obj = {"message"} ->
            << "{", "  \"message\": \"" \o obj.message \o "\"", "}" >>
      [] DOMAIN obj = {"message", "documentation_url"} ->
            << "{", "  \"message\": \"" \o obj.message \o "\",",
               "  \"documentation_url\": \"" \o obj.documentation_url \o "\"", "}" >>
      [] DOMAIN obj = {"name", "owner"} ->
            << "{", "  \"name\": \"" \o obj.name \o "\",",
               "  \"owner\": {", "    \"login\": \"" \o obj.owner.login \o "\"", "  }", "}" >>
      [] OTHER -> << "{}" >>

\* What the network and the provider can do with the one request
Response(status, body) == [kind |-> "response", status |-> status, body |-> body, exc |-> ""]

TransportFault(exc) == [kind |-> "fault", status |-> 0, body |-> NotUtf8, exc |-> exc]

Statuses == {200, 201, 204, 401, 422, 500}

TransportFaults == {"URLError", "TimeoutError"}

Outcomes == {Response(s, b) : s \in Statuses, b \in Bodies}
            \cup {TransportFault(e) : e \in TransportFaults}

Is2xx(status) == status >= 200 /\ status <= 299

\* urlopen(req): returns the response for a 2xx status, raises HTTPError for
\* an error status, and raises the transport's exception when no response
\* arrives.
urlopen(o) ==
    IF o.kind = "fault" THEN [raised |-> o.exc, body |-> o.body]
    ELSE IF Is2xx(o.status) THEN [raised |-> "", body |-> o.body]
    ELSE [raised |-> "HTTPError", body |-> o.body]

\* The request built on lines 36-52
Request(tok) ==
    [url |-> GITHUB_API \o "/user/repos",
     name |-> REPO_NAME,
     authorization |-> "token " \o tok.v]

Return(s, r) == [raised |-> "", success |-> s, result |-> r]

Raise(e) == [raised |-> e, success |-> FALSE, result |-> Unset]

\* create_repo with a bare except around the whole exchange
create_repo_CatchAll(o) ==
    LET r == urlopen(o)
    IN  IF r.raised = ""
        THEN LET p == json_loads_bytes(r.body)
             IN  IF p.raised # "" THEN Return(FALSE, [message |-> p.raised])
                                  ELSE Return(TRUE, p.value)
        ELSE LET d == decode(r.body)
                 p == json_loads(d.text)
             IN  IF r.raised # "HTTPError" \/ d.raised # ""
                 THEN Return(FALSE, [message |-> r.raised])
                 ELSE IF p.raised = "" THEN Return(FALSE, p.value)
                                       ELSE Return(FALSE, [message |-> d.text])

\* create_repo with "except URLError" in place of "except HTTPError"
create_repo_CatchURLError(o) ==
    LET r == urlopen(o)
    IN  IF r.raised = ""
        THEN LET p == json_loads_bytes(r.body)
             IN  IF p.raised # "" THEN Raise(p.raised)
                                  ELSE Return(TRUE, p.value)
        ELSE IF r.raised = "URLError"
        THEN Return(FALSE, [message |-> r.raised])
        ELSE IF r.raised = "HTTPError"
        THEN LET d == decode(r.body)
             IN  IF d.raised # "" THEN Raise(d.raised)
                 ELSE LET p == json_loads(d.text)
                      IN  IF p.raised = "" THEN Return(FALSE, p.value)
                                           ELSE Return(FALSE, [message |-> d.text])
        ELSE Raise(r.raised)

\* create_repo that wraps every error body without trying to parse it
create_repo_WrapAlways(o) ==
    LET r == urlopen(o)
    IN  IF r.raised = ""
        THEN LET p == json_loads_bytes(r.body)
             IN  IF p.raised # "" THEN Raise(p.raised)
                                  ELSE Return(TRUE, p.value)
        ELSE IF r.raised = "HTTPError"
        THEN LET d == decode(r.body)
             IN  IF d.raised # "" THEN Raise(d.raised)
                                  ELSE Return(FALSE, [message |-> d.text])
        ELSE Raise(r.raised)

\* create_repo that takes only 201 Created for success
create_repo_Only201(o) ==
    LET r == urlopen(o)
    IN  IF r.raised = "" /\ o.status = 201
        THEN LET p == json_loads_bytes(r.body)
             IN  IF p.raised # "" THEN Raise(p.raised)
                                  ELSE Return(TRUE, p.value)
        ELSE IF r.raised \in {"", "HTTPError"}
        THEN LET d == decode(r.body)
             IN  IF d.raised # "" THEN Raise(d.raised)
                 ELSE LET p == json_loads(d.text)
                      IN  IF p.raised = "" THEN Return(FALSE, p.value)
                                           ELSE Return(FALSE, [message |-> d.text])
        ELSE Raise(r.raised)

\* create_repo, lines 54-64
create_repo(o) ==
    LET r == urlopen(o)
    IN  IF r.raised = ""
        THEN LET p == json_loads_bytes(r.body)
             IN  IF p.raised # "" THEN Raise(p.raised)
                                  ELSE Return(TRUE, p.value)
        ELSE IF r.raised = "HTTPError"
        THEN LET d == decode(r.body)
             IN  IF d.raised # "" THEN Raise(d.raised)
                 ELSE LET p == json_loads(d.text)
                      IN  IF p.raised = "" THEN Return(FALSE, p.value)
                                           ELSE Return(FALSE, [message |-> d.text])
        ELSE Raise(r.raised)

-----------------------------------------------------------------------------
(* The local git tool, as setup_git_remote uses it *)

ssh_url == "git@github.com:" \o GITHUB_USER \o "/" \o REPO_NAME \o ".git"

OtherUrl == "https://github.com/someone/elsewhere.git"

Origins == {None, Str(OtherUrl), Str(ssh_url)}

\* "missing": no git executable on PATH; "norepo": the working directory is
\* not a git repository; "readonly": the repository's config cannot be
\* written; "ok": a writable repository.
GitEnvs == {"missing", "norepo", "readonly", "ok"}

\* subprocess.run(["git", "remote", cmd, "origin", ...]): raises
\* FileNotFoundError when git cannot be started, otherwise gives git's exit
\* status and the remote as git leaves it.
git_run(cmd, env, org) ==
    IF env = "missing" THEN [raised |-> "FileNotFoundError", rc |-> -1, origin |-> org]
    ELSE IF env = "norepo" THEN [raised |-> "", rc |-> 128, origin |-> org]
    ELSE IF cmd = "get-url" THEN
        [raised |-> "", rc |-> IF org.isNone THEN 2 ELSE 0, origin |-> org]
    ELSE IF env = "readonly" THEN [raised |-> "", rc |-> 255, origin |-> org]
    ELSE IF cmd = "set-url" THEN
        IF org.isNone THEN [raised |-> "", rc |-> 2, origin |-> org]
                      ELSE [raised |-> "", rc |-> 0, origin |-> Str(ssh_url)]
    ELSE \* cmd = "add"
        IF org.isNone THEN [raised |-> "", rc |-> 0, origin |-> Str(ssh_url)]
                      ELSE [raised |-> "", rc |-> 3, origin |-> org]

\* setup_git_remote with the two branches exchanged
MutatingCommand_Swapped(rc) == IF rc = 0 THEN "add" ELSE "set-url"

\* setup_git_remote lines 74-80: the command chosen from the query's status
MutatingCommand(rc) == IF rc = 0 THEN "set-url" ELSE "add"

\* The check mark of lines 77, 81 and 95, written in ASCII
CheckMark == "[v]"

ConfirmationLine(cmd) ==
    IF cmd = "set-url" THEN CheckMark \o " Updated remote 'origin' to " \o ssh_url
                       ELSE CheckMark \o " Added remote 'origin': " \o ssh_url

\* main lines 104-105: the exceptions the except clause catches
CaughtByMain(exc) == exc = "CalledProcessError"

WarningLine(cmd, rc) ==
    "Warning: Could not set up git remote: Command 'git remote " \o cmd
        \o "' returned non-zero exit status " \o ToString(rc) \o "."

-----------------------------------------------------------------------------
(* main, lines 83-116, one action per step *)

NoResponse == [kind |-> "none", status |-> 0, body |-> NotUtf8, exc |-> ""]

Banner == << "Creating repository: " \o GITHUB_USER \o "/" \o REPO_NAME, "" >>

SuccessLines ==
    << CheckMark \o " Repository created successfully!",
       "",
       "Repository URL: https://github.com/" \o GITHUB_USER \o "/" \o REPO_NAME,
       "SSH URL: git@github.com:" \o GITHUB_USER \o "/" \o REPO_NAME \o ".git",
       "" >>

NextStepsLines ==
    << "",
       "Next steps:",
       "  git add .",
       "  git commit -m 'Initial commit: Phoenix.Marie v1.0'",
       "  git branch -M main",
       "  git push -u origin main" >>

FailureHeader == "Error creating repository:"

Init ==
    /\ environ \in Environs
    /\ argv \in Argvs
    /\ gitEnv \in GitEnvs
    /\ origin \in Origins
    /\ gitEnv = "norepo" => origin = None
    /\ origin0 = origin
    /\ pc = "main"
    /\ token = None
    /\ success = FALSE
    /\ result = Unset
    /\ queryRc = -1
    /\ output = <<>>
    /\ requests = <<>>
    /\ response = NoResponse
    /\ gitLog = <<>>
    /\ exitStatus = -1
    /\ fault = ""

\* sys.exit(status)
Exit(status) ==
    /\ exitStatus' = status
    /\ pc' = "exited"
    /\ fault' = ""

\* An exception leaves main(): the interpreter prints the traceback on
\* standard error and the process ends with status 1.
Uncaught(exc) ==
    /\ exitStatus' = 1
    /\ pc' = "exited"
    /\ fault' = exc

\* lines 84-90
GetToken ==
    /\ pc = "main"
    /\ LET g == get_token(environ, argv)
       IN  IF g.exited
           THEN /\ output' = output \o Banner \o g.printed
                /\ Exit(g.status)
                /\ UNCHANGED token
           ELSE /\ token' = g.token
                /\ IF ~Truthy(g.token)
                   THEN /\ output' = output \o Banner \o <<"Error: Token required">>
                        /\ Exit(1)
                   ELSE /\ output' = output \o Banner
                        /\ pc' = "create_repo"
                        /\ UNCHANGED <<exitStatus, fault>>
    /\ UNCHANGED <<environ, argv, gitEnv, origin, origin0, success, result,
                   queryRc, requests, response, gitLog>>

\* line 92
CreateRepo ==
    /\ pc = "create_repo"
    /\ \E o \in Outcomes :
          LET c == create_repo(o)
          IN  /\ requests' = Append(requests, Request(token))
              /\ response' = o
              /\ IF c.raised # ""
                 THEN /\ Uncaught(c.raised)
                      /\ UNCHANGED <<success, result>>
                 ELSE /\ success' = c.success
                      /\ result' = c.result
                      /\ pc' = "branch"
                      /\ UNCHANGED <<exitStatus, fault>>
    /\ UNCHANGED <<environ, argv, gitEnv, origin, origin0, token, queryRc,
                   output, gitLog>>

\* main with the failure branch falling through to the remote set-up
main_branch_AlwaysSetup(s) == "setup_git_remote"

\* line 94: where main goes once create_repo has returned
main_branch(s) == IF s THEN "setup_git_remote" ELSE "report_failure"

\* lines 95-99
ReportSuccess ==
    /\ pc = "branch"
    /\ main_branch(success) = "setup_git_remote"
    /\ output' = output \o SuccessLines
    /\ pc' = "setup_git_remote"
    /\ UNCHANGED <<environ, argv, gitEnv, origin, origin0, token, success,
                   result, queryRc, requests, response, gitLog, exitStatus, fault>>

\* lines 114-116
ReportFailure ==
    /\ pc = "branch"
    /\ main_branch(success) = "report_failure"
    /\ output' = output \o <<FailureHeader>> \o json_dumps(result)
    /\ Exit(1)
    /\ UNCHANGED <<environ, argv, gitEnv, origin, origin0, token, success,
                   result, queryRc, requests, response, gitLog>>

\* setup_git_remote lines 71-72, called from line 103
GitQuery ==
    /\ pc = "setup_git_remote"
    /\ LET r == git_run("get-url", gitEnv, origin)
       IN  /\ gitLog' = Append(gitLog, "get-url")
           /\ origin' = r.origin
           /\ IF r.raised # ""
              THEN IF CaughtByMain(r.raised)
                   THEN /\ output' = output \o <<WarningLine("get-url", r.rc)>>
                        /\ pc' = "next_steps"
                        /\ UNCHANGED <<queryRc, exitStatus, fault>>
                   ELSE /\ Uncaught(r.raised)
                        /\ UNCHANGED <<queryRc, output>>
              ELSE /\ queryRc' = r.rc
                   /\ pc' = "mutate"
                   /\ UNCHANGED <<output, exitStatus, fault>>
    /\ UNCHANGED <<environ, argv, gitEnv, origin0, token, success, result,
                   requests, response>>

\* setup_git_remote lines 74-81 with main's except clause, lines 104-105:
\* check=True turns a non-zero exit status into CalledProcessError
GitMutate ==
    /\ pc = "mutate"
    /\ LET cmd == MutatingCommand(queryRc)
           r == git_run(cmd, gitEnv, origin)
           exc == IF r.raised # "" THEN r.raised
                  ELSE IF r.rc # 0 THEN "CalledProcessError" ELSE ""
       IN  /\ gitLog' = Append(gitLog, cmd)
           /\ origin' = r.origin
           /\ IF exc = ""
              THEN /\ output' = output \o <<ConfirmationLine(cmd)>>
                   /\ pc' = "next_steps"
                   /\ UNCHANGED <<exitStatus, fault>>
              ELSE IF CaughtByMain(exc)
              THEN /\ output' = output \o <<WarningLine(cmd, r.rc)>>
                   /\ pc' = "next_steps"
                   /\ UNCHANGED <<exitStatus, fault>>
              ELSE /\ Uncaught(exc)
                   /\ UNCHANGED output
    /\ UNCHANGED <<environ, argv, gitEnv, origin0, token, success, result,
                   queryRc, requests, response>>

\* lines 107-112, then main returns and the process ends with status 0
NextSteps ==
    /\ pc = "next_steps"
    /\ output' = output \o NextStepsLines
    /\ Exit(0)
    /\ UNCHANGED <<environ, argv, gitEnv, origin, origin0, token, success,
                   result, queryRc, requests, response, gitLog>>

Next ==
    \/ GetToken
    \/ CreateRepo
    \/ ReportSuccess
    \/ ReportFailure
    \/ GitQuery
    \/ GitMutate
    \/ NextSteps

Spec == Init /\ [][Next]_vars

-----------------------------------------------------------------------------
(* Vocabulary of the properties *)

Contains(lines, l) == \E i \in DOMAIN lines : lines[i] = l

\* lines is a suffix of the output
EndsWith(out, lines) ==
    /\ Len(out) >= Len(lines)
    /\ SubSeq(out, Len(out) - Len(lines) + 1, Len(out)) = lines

\* The body is the UTF-8 encoding of a JSON text
IsJson(b) == b.utf8 /\ b.text \in JsonTexts

Exchanged == response.kind # "none"

GotResponse == response.kind = "response"

\* An exception left create_repo: the run ended on line 92
CreateRepoRaised == Exchanged /\ pc = "exited" /\ fault # "" /\ gitLog = <<>>

\* create_repo returned a pair to main
CreateRepoReturned == Exchanged /\ ~CreateRepoRaised

MutatingCommands == {"set-url", "add"}

Mutations == {i \in DOMAIN gitLog : gitLog[i] \in MutatingCommands}

\* The order of the steps of main
Stage(p) ==
    CASE p = "main" -> 0
      [] p = "create_repo" -> 1
      [] p = "branch" -> 2
      [] p = "setup_git_remote" -> 3
      [] p = "mutate" -> 4
      [] p = "next_steps" -> 5
      [] p = "exited" -> 6

-----------------------------------------------------------------------------
(* The claims *)

\* C1: with GITHUB_TOKEN absent from the environment and no command-line
\* argument, the run prints the usage text with both invocation forms and
\* ends with exit status 1, having issued no HTTP request and started no git
\* command.
C1_NoCredentialExits ==
    (environ.isNone /\ Len(argv) = 1 /\ pc # "main") =>
        /\ pc = "exited"
        /\ exitStatus = 1
        /\ fault = ""
        /\ Contains(output, "  " \o argv[1] \o " <GITHUB_TOKEN>")
        /\ Contains(output, "  GITHUB_TOKEN=<token> " \o argv[1])
        /\ EndsWith(output, UsageText(argv))
        /\ requests = <<>>
        /\ response = NoResponse
        /\ gitLog = <<>>
        /\ origin = origin0

C1_Witness ==
    /\ environ.isNone /\ Len(argv) = 1
    /\ pc = "exited" /\ exitStatus = 1
    /\ Contains(output, "Usage:")

\* C2 as stated: get_token returns the environment value unchanged whenever
\* the variable is set (empty or not), otherwise the first command-line
\* argument whenever one is given (empty or not), otherwise it exits with
\* status 1; and the token of the request is never empty.
C2_Original ==
    pc # "main" =>
        /\ IF ~environ.isNone THEN token = environ
           ELSE IF Len(argv) > 1 THEN token = Str(argv[2])
           ELSE pc = "exited" /\ exitStatus = 1 /\ requests = <<>>
        /\ \A i \in DOMAIN requests : requests[i].authorization # "token "

\* C2 amended: get_token returns the environment value unchanged when it is
\* set and not empty, otherwise the first command-line argument when one is
\* given and not empty, otherwise it exits with status 1 before any request;
\* the token handed to create_repo is never empty.
C2_TokenResolution ==
    pc # "main" =>
        /\ IF Truthy(environ)
           THEN token = environ /\ (pc = "exited" => requests # <<>>)
           ELSE IF Len(argv) > 1 /\ argv[2] # ""
           THEN token = Str(argv[2]) /\ (pc = "exited" => requests # <<>>)
           ELSE pc = "exited" /\ exitStatus = 1 /\ requests = <<>> /\ fault = ""
        /\ pc # "exited" => Truthy(token)
        /\ \A i \in DOMAIN requests :
              /\ requests[i].authorization # "token "
              /\ requests[i].authorization = "token " \o token.v

C2_Witness ==
    /\ environ = Str("") /\ Len(argv) > 1
    /\ token = Str(ArgToken)
    /\ Len(requests) = 1
    /\ requests[1].authorization = "token " \o ArgToken

C4_ErrorJsonSurfaced ==
    (GotResponse /\ ~Is2xx(response.status) /\ IsJson(response.body)) =>
        /\ pc \in {"branch", "exited"}
        /\ success = FALSE
        /\ fault = ""
        /\ result = json_loads(response.body.text).value
        /\ response.body.text = ExistsJson =>
              result = [message |-> "name already exists"]
        /\ gitLog = <<>>
        /\ origin = origin0
        /\ pc = "exited" =>
              /\ exitStatus = 1
              /\ EndsWith(output, <<FailureHeader>> \o json_dumps(result))
              /\ response.body.text = ExistsJson =>
                    Contains(output, "  \"message\": \"name already exists\"")

C4_Witness ==
    /\ GotResponse /\ response.status = 422
    /\ response.body = Bytes(ExistsJson)
    /\ pc = "exited" /\ exitStatus = 1
    /\ result = [message |-> "name already exists"]

\* C5: an HTTP error status whose body is not JSON makes create_repo return
\* (False, d), d an object with the single field message holding the raw
\* body; create_repo does not crash.
C5_NonJsonErrorWrapped ==
    (GotResponse /\ ~Is2xx(response.status) /\ ~IsJson(response.body)) =>
        /\ CreateRepoReturned
        /\ success = FALSE
        /\ DOMAIN result = {"message"}
        /\ result.message = response.body.text

C7_SetUrlOrAdd ==
    /\ Cardinality(Mutations) <= 1
    /\ pc = "mutate" => gitLog = <<"get-url">> /\ origin = origin0
    /\ Mutations # {} =>
          /\ success
          /\ Len(gitLog) = 2
          /\ gitLog[1] = "get-url"
          /\ queryRc = 0 => gitLog[2] = "set-url"
          /\ queryRc # 0 => gitLog[2] = "add"
          /\ Contains(output, ConfirmationLine(gitLog[2])) =>
                origin = Str("git@github.com:c04ch1337/Phoenix.Marie.git")
          /\ ~Contains(output, ConfirmationLine(gitLog[2])) => origin = origin0

C7_Witness ==
    /\ queryRc = 0
    /\ gitLog = <<"get-url", "set-url">>
    /\ origin0 = Str(OtherUrl)
    /\ origin = Str(ssh_url)

\* C8: after a successful creation, any failure of the remote configuration
\* (the mutating command failing, or git being unable to run at all) only
\* prints a warning: the run prints the next-steps block and ends with
\* status 0, never with status 1 or an uncaught exception.
C8_RemoteFailureOnlyWarns ==
    (CreateRepoReturned /\ success /\ pc = "exited") =>
        /\ exitStatus = 0
        /\ fault = ""
        /\ EndsWith(output, NextStepsLines)

\* C9: a transport-level fault of the HTTP call is caught nowhere: the
\* process ends abnormally with that exception, the creation-failure
\* diagnostic is not printed, there is no second request, no git command is
\* started and origin is as it was.
C9_TransportFaultUncaught ==
    response.kind = "fault" =>
        /\ pc = "exited"
        /\ fault = response.exc
        /\ exitStatus # 0
        /\ ~Contains(output, FailureHeader)
        /\ EndsWith(output, Banner)
        /\ Len(requests) = 1
        /\ gitLog = <<>>
        /\ origin = origin0

C9_Witness ==
    /\ response = TransportFault("URLError")
    /\ pc = "exited"
    /\ fault = "URLError"
    /\ origin0 = Str(OtherUrl)

\* C10: the steps of a run follow one another in the order resolve
\* credential, create repository, then configure remote or report failure,
\* never going back; at most one HTTP request is issued, a git command is
\* started only after create_repo returned success, and a run that ends with
\* status 1 leaves origin as it was.
C10_StateOrder ==
    /\ Len(requests) <= 1
    /\ requests # <<>> => Stage(pc) >= 2 /\ Truthy(token)
    /\ Stage(pc) >= 2 => Len(requests) = 1 \/ (pc = "exited" /\ requests = <<>>)
    /\ gitLog # <<>> => CreateRepoReturned /\ success /\ Stage(pc) >= 4
    /\ Contains(output, FailureHeader) => gitLog = <<>> /\ ~success
    /\ exitStatus = 1 => origin = origin0
    /\ exitStatus # -1 <=> pc = "exited"

\* C10: in every run the state order above holds throughout and every step
\* moves main strictly forward (no loop, no retry).
C10_Sequential == [](C10_StateOrder) /\ [][Stage(pc') > Stage(pc)]_vars

C10_Witness ==
    /\ pc = "exited" /\ exitStatus = 0
    /\ Len(requests) = 1
    /\ gitLog = <<"get-url", "add">>
    /\ origin0 = None /\ origin = Str(ssh_url)

====
